---- MODULE Spec2Model ----
(***************************************************************************)
(* Job orchestration of the Better Images Flask application (src/app.py):  *)
(* the process-wide jobs dictionary, the request handlers that run in      *)
(* Flask's request threads, the background threads started by /process and *)
(* /resize, and the ThreadPoolExecutor that runs the /batch-process items. *)
(* A step of a handler or of a background function is one access of the    *)
(* shared jobs dictionary (CPython switches threads between bytecodes), or *)
(* one call of an image provider, which reports progress and then returns  *)
(* or raises.  Adjacent accesses are one step only where noted.            *)
(***************************************************************************)
EXTENDS Integers, Sequences, FiniteSets, TLC

\* ------------------------------------------------------------------ bounds
MaxJobs == 3
MaxThreads == 2
MaxHandlers == 1
MaxQueue == 2
MaxReqJob == 2
MaxReqBatch == 1
MaxReqPool == 3
MaxReqProcess == 2
MaxReqLimiter == 2
MaxReqLive == 2
MaxReqDownload == 2
MaxReqArchive == 1
MaxReqName == 1
MaxReqConfig == 2
MaxReqFinal == 2
MaxReqResize == 2
MaxReqReject == 2

\* max_workers of the global executor
PoolSize == 2

JobIds == 1..MaxJobs
HandlerIds == 1..MaxHandlers
\* executions 1..PoolSize are the executor's workers, the others are the
\* threading.Thread objects started by /process and /resize
WorkerIds == 1..PoolSize
ThreadIds == (PoolSize + 1)..(PoolSize + MaxThreads)
ExecIds == WorkerIds \cup ThreadIds

\* ------------------------------------------------------------------ values
NoPath == [job |-> 0, sfx |-> <<>>, ext |-> ""]
\* the value stored under final_width / final_height (a number, not a path)
DimValue == [job |-> 0, sfx |-> <<"dim">>, ext |-> ""]

Kinds == {"upscaled", "no_background", "background_removed", "svg", "ico",
          "final", "final_width", "final_height"}

EmptyResults == [k \in Kinds |-> NoPath]

\* the keys of job["results"]
ResultKeys(r) == {k \in Kinds : r[k] # NoPath}

\* a key of jobs that was never inserted
NoJob ==
    [status |-> "absent", progress |-> "none", error |-> "none",
     results |-> EmptyResults, original |-> NoPath, batch_id |-> 0,
     upscale |-> -1, remove_bg |-> FALSE, output_format |-> "unset", dims |-> NoPath,
     original_name |-> [stem |-> "", ext |-> ""]]

\* the base name of the file a client uploads as job j (names may repeat)
UploadStem(j) == IF j = 1 THEN "cat" ELSE "img"

\* the record upload() and upload_batch() insert
NewJob(j, ext, b) ==
    [status |-> "uploaded", progress |-> "none", error |-> "none",
     results |-> EmptyResults,
     original |-> [job |-> j, sfx |-> <<>>, ext |-> ext], batch_id |-> b,
     upscale |-> -1, remove_bg |-> FALSE, output_format |-> "unset",
     dims |-> [job |-> j, sfx |-> <<>>, ext |-> ext],
     original_name |-> [stem |-> UploadStem(j), ext |-> ext]]

\* ImageProcessor._make_output_path: stem + suffix + (ext or the input's ext)
MakeOutputPath(p, suffix, ext) ==
    [job |-> p.job,
     sfx |-> IF suffix = "" THEN p.sfx ELSE Append(p.sfx, suffix),
     ext |-> IF ext = "" THEN p.ext ELSE ext]

\* the work copy of run_processing: OUTPUT_DIR / f"{job_id}_work{suffix}"
WorkPath(j, p) == [job |-> j, sfx |-> <<"_work">>, ext |-> p.ext]

\* what upscale() can return: the input's extension, or .png for an image with alpha
UpscaleOuts(p, scale) ==
    { MakeOutputPath(p, IF scale = 2 THEN "_x2" ELSE "_x4", e) : e \in {"", ".png"} }

RemoveBgOut(p) == MakeOutputPath(p, "_nobg", ".png")
ToSvgOut(p) == MakeOutputPath(p, "", ".svg")
ToIcoOut(p) == MakeOutputPath(p, "", ".ico")
ResizeOut(p) == MakeOutputPath(p, "_resized", "")

\* final_path.lower().endswith((".png", ".jpg", ".jpeg", ".webp"))
IsRaster(p) == p.ext \in {".png", ".jpg", ".jpeg", ".webp"}

\* a pipeline configuration of a request
Config(up, bg, fmt) == [up |-> up, bg |-> bg, fmt |-> fmt]
AllConfigs == { Config(up, bg, fmt) : up \in {0, 2, 4}, bg \in BOOLEAN, fmt \in {"png", "svg", "ico"} }
NoConfig == Config(0, FALSE, "png")

\* ------------------------------------------------------------------- state
VARIABLES
    jobs,       \* the jobs dictionary: job id -> record (NoJob: no such key)
    handlers,   \* the requests being served, one per Flask request thread
    execs,      \* the executor's workers and the started threads
    queue,      \* the executor's work queue: the submitted run_batch_item calls
    budget,     \* trigger requests (/process, /batch-process, /resize) still to come
    everDone    \* history: the jobs whose status has been set to done

vars == <<jobs, handlers, execs, queue, budget, everDone>>

\* a file name: stem, suffix and extension
NoName == [stem |-> "", suffix |-> "", ext |-> ""]

NoBody ==
    [status |-> "", progress |-> "", error |-> "", kinds |-> {},
     all_done |-> FALSE, any_error |-> FALSE, any_processing |-> FALSE]

IdleHandler ==
    [op |-> "idle", pc |-> "idle", job |-> 0, cfg |-> NoConfig, ids |-> <<>>,
     i |-> 0, code |-> 0, body |-> NoBody, kind |-> "", file |-> NoPath,
     name |-> NoName, entries |-> {}]

IdleExec ==
    [kind |-> "idle", pc |-> "idle", job |-> 0, cfg |-> NoConfig,
     cur |-> NoPath, fin |-> NoPath, wrote |-> {}, trig |-> NoConfig]

InitWith(requests) ==
    /\ jobs = [j \in JobIds |-> NoJob]
    /\ handlers = [h \in HandlerIds |-> IdleHandler]
    /\ execs = [e \in ExecIds |-> IdleExec]
    /\ queue = <<>>
    /\ budget = requests
    /\ everDone = {}

Exists(j) == j \in JobIds /\ jobs[j] # NoJob

\* the response of a handler: it holds the answer until it is sent
Reply(h, code) ==
    [handlers EXCEPT ![h] = [@ EXCEPT !.pc = "resp", !.code = code]]

\* a write of one field of one job
SetField(j, f, v) == [jobs EXCEPT ![j] = [@ EXCEPT ![f] = v]]

\* job["results"][k] = v
SetResult(j, k, v) == [jobs EXCEPT ![j] = [@ EXCEPT !.results = [@ EXCEPT ![k] = v]]]

FreeThreads == {t \in ThreadIds : execs[t].kind = "idle"}

\* threading.Thread(...).start(): the new thread is the lowest free one
StartThread(ex) ==
    LET t == CHOOSE x \in FreeThreads : \A y \in FreeThreads : x <= y
    IN  [execs EXCEPT ![t] = ex]

\* requests that will still start a thread
Spawning == {h \in HandlerIds : handlers[h].op \in {"process", "resize"} /\ handlers[h].pc # "resp"}

CanSpawn == Cardinality(Spawning) < Cardinality(FreeThreads)

\* ------------------------------------------------------------------ upload
\* upload(): a fresh uuid4 key is inserted with status uploaded
Upload(j, ext) ==
    /\ j \in JobIds /\ ~Exists(j)
    /\ \A k \in JobIds : k < j => Exists(k)
    /\ jobs' = [jobs EXCEPT ![j] = NewJob(j, ext, 0)]
    /\ UNCHANGED <<handlers, execs, queue, budget, everDone>>

Respond(h) ==
    /\ handlers[h].pc = "resp"
    /\ handlers' = [handlers EXCEPT ![h] = IdleHandler]
    /\ UNCHANGED <<jobs, execs, queue, budget, everDone>>

\* ---------------------------------------------------------------- /process
\* process() without the status guard of lines 183-184
ProcessCheckNoGuard(h, j, cfg) ==
    /\ handlers[h].op = "idle"
    /\ budget > 0
    /\ CanSpawn
    /\ budget' = budget - 1
    /\ LET hd == [IdleHandler EXCEPT !.op = "process", !.job = j, !.cfg = cfg]
       IN  handlers' =
             [handlers EXCEPT ![h] =
                IF ~Exists(j) THEN [hd EXCEPT !.pc = "resp", !.code = 404]
                ELSE [hd EXCEPT !.pc = "p_status"]]
    /\ UNCHANGED <<jobs, execs, queue, everDone>>

\* process(), lines 174-192: unknown job -> 404, status processing -> 409
ProcessCheck(h, j, cfg) ==
    /\ handlers[h].op = "idle"
    /\ budget > 0
    /\ CanSpawn
    /\ budget' = budget - 1
    /\ LET hd == [IdleHandler EXCEPT !.op = "process", !.job = j, !.cfg = cfg]
       IN  handlers' =
             [handlers EXCEPT ![h] =
                IF ~Exists(j) THEN [hd EXCEPT !.pc = "resp", !.code = 404]
                ELSE IF jobs[j].status = "processing"
                     THEN [hd EXCEPT !.pc = "resp", !.code = 409]
                     ELSE [hd EXCEPT !.pc = "p_status"]]
    /\ UNCHANGED <<jobs, execs, queue, everDone>>

\* line 194: job["status"] = "processing"
ProcessSetStatus(h) ==
    /\ handlers[h].pc = "p_status"
    /\ jobs' = SetField(handlers[h].job, "status", "processing")
    /\ handlers' = [handlers EXCEPT ![h].pc = "p_progress"]
    /\ UNCHANGED <<execs, queue, budget, everDone>>

\* where run_processing goes after the copy, the upscale and the background step
AfterBg(cfg) ==
    IF cfg.fmt \in {"svg", "ico"} THEN "convert_call" ELSE "final"

AfterUpscale(cfg) == IF cfg.bg THEN "bg_call" ELSE AfterBg(cfg)

AfterCopy(cfg) == IF cfg.up # 0 THEN "up_call" ELSE AfterUpscale(cfg)

\* lines 195, 254-257: job["progress"] = "Starting...", the thread is started
ProcessStart(h) ==
    /\ handlers[h].pc = "p_progress"
    /\ jobs' = SetField(handlers[h].job, "progress", "starting")
    /\ execs' = StartThread([IdleExec EXCEPT !.kind = "process", !.pc = "copy",
                                !.job = handlers[h].job, !.cfg = handlers[h].cfg])
    /\ handlers' = Reply(h, 200)
    /\ UNCHANGED <<queue, budget, everDone>>

\* an execution moves on (idle when it returns)
Goto(e, pc) ==
    [execs EXCEPT ![e] = IF pc = "return" THEN IdleExec ELSE [@ EXCEPT !.pc = pc]]

\* an execution moves on after job["results"][k] = v (wrote keeps, for the
\* execution, the entries <<k, v>> it has stored)
GotoWrote(e, k, v, pc) ==
    [execs EXCEPT ![e] = [@ EXCEPT !.pc = pc, !.wrote = @ \cup {<<k, v>>}]]

\* run_processing that moves the source to the work path instead of copying it
RunCopyMove(e) ==
    /\ execs[e].kind = "process" /\ execs[e].pc = "copy"
    /\ \/ /\ execs' = [execs EXCEPT ![e] =
                          [@ EXCEPT !.cur = WorkPath(execs[e].job, jobs[execs[e].job].original),
                                    !.fin = WorkPath(execs[e].job, jobs[execs[e].job].original),
                                    !.pc = AfterCopy(execs[e].cfg)]]
          /\ jobs' = SetField(execs[e].job, "original",
                              WorkPath(execs[e].job, jobs[execs[e].job].original))
       \/ /\ execs' = Goto(e, "exc_status")
          /\ UNCHANGED jobs
    /\ UNCHANGED <<handlers, queue, budget, everDone>>

\* lines 199-205: the source is copied to the work path
RunCopy(e) ==
    /\ execs[e].kind = "process" /\ execs[e].pc = "copy"
    /\ \/ execs' = [execs EXCEPT ![e] =
                       [@ EXCEPT !.cur = WorkPath(execs[e].job, jobs[execs[e].job].original),
                                 !.fin = WorkPath(execs[e].job, jobs[execs[e].job].original),
                                 !.pc = AfterCopy(execs[e].cfg)]]
       \/ execs' = Goto(e, "exc_status")
    /\ UNCHANGED <<jobs, handlers, queue, budget, everDone>>

\* lines 213-214: progress is reported, upscale returns a path or raises
RunUpscaleCall(e) ==
    /\ execs[e].kind = "process" /\ execs[e].pc = "up_call"
    /\ jobs' = SetField(execs[e].job, "progress", "step")
    /\ \/ \E out \in UpscaleOuts(execs[e].cur, execs[e].cfg.up) :
             execs' = [execs EXCEPT ![e] = [@ EXCEPT !.cur = out, !.fin = out, !.pc = "up_store"]]
       \/ execs' = Goto(e, "exc_status")
    /\ UNCHANGED <<handlers, queue, budget, everDone>>

\* line 215
RunUpscaleStore(e) ==
    /\ execs[e].kind = "process" /\ execs[e].pc = "up_store"
    /\ jobs' = SetResult(execs[e].job, "upscaled", execs[e].cur)
    /\ execs' = GotoWrote(e, "upscaled", execs[e].cur, AfterUpscale(execs[e].cfg))
    /\ UNCHANGED <<handlers, queue, budget, everDone>>

\* lines 219-220
RunRemoveBgCall(e) ==
    /\ execs[e].kind = "process" /\ execs[e].pc = "bg_call"
    /\ jobs' = SetField(execs[e].job, "progress", "step")
    /\ \/ execs' = [execs EXCEPT ![e] =
                       [@ EXCEPT !.cur = RemoveBgOut(execs[e].cur),
                                 !.fin = RemoveBgOut(execs[e].cur),
                                 !.pc = "bg_store"]]
       \/ execs' = Goto(e, "exc_status")
    /\ UNCHANGED <<handlers, queue, budget, everDone>>

\* line 221
RunRemoveBgStore(e) ==
    /\ execs[e].kind = "process" /\ execs[e].pc = "bg_store"
    /\ jobs' = SetResult(execs[e].job, "no_background", execs[e].cur)
    /\ execs' = GotoWrote(e, "no_background", execs[e].cur, AfterBg(execs[e].cfg))
    /\ UNCHANGED <<handlers, queue, budget, everDone>>

\* lines 224-226 and 228-230: to_svg or to_ico gives final_path
RunConvertCall(e) ==
    /\ execs[e].kind = "process" /\ execs[e].pc = "convert_call"
    /\ jobs' = SetField(execs[e].job, "progress", "step")
    /\ \/ execs' = [execs EXCEPT ![e] =
                       [@ EXCEPT !.fin = IF execs[e].cfg.fmt = "svg"
                                                  THEN ToSvgOut(execs[e].cur)
                                                  ELSE ToIcoOut(execs[e].cur),
                                 !.pc = "convert_store"]]
       \/ execs' = Goto(e, "exc_status")
    /\ UNCHANGED <<handlers, queue, budget, everDone>>

\* lines 227 and 231
RunConvertStore(e) ==
    /\ execs[e].kind = "process" /\ execs[e].pc = "convert_store"
    /\ jobs' = SetResult(execs[e].job, execs[e].cfg.fmt, execs[e].fin)
    /\ execs' = GotoWrote(e, execs[e].cfg.fmt, execs[e].fin, "final")
    /\ UNCHANGED <<handlers, queue, budget, everDone>>

\* run_processing that goes on to the status write without storing final
RunFinalSkipped(e) ==
    /\ execs[e].kind = "process" /\ execs[e].pc = "final"
    /\ execs' = Goto(e, "set_done")
    /\ UNCHANGED <<jobs, handlers, queue, budget, everDone>>

\* line 235 (final_path is current_path when no conversion ran, line 233)
RunFinal(e) ==
    /\ execs[e].kind = "process" /\ execs[e].pc = "final"
    /\ jobs' = SetResult(execs[e].job, "final", execs[e].fin)
    /\ execs' = GotoWrote(e, "final", execs[e].fin, "set_done")
    /\ UNCHANGED <<handlers, queue, budget, everDone>>

\* line 236
RunSetDone(e) ==
    /\ execs[e].kind = "process" /\ execs[e].pc = "set_done"
    /\ jobs' = SetField(execs[e].job, "status", "done")
    /\ everDone' = everDone \cup {execs[e].job}
    /\ execs' = Goto(e, "set_completed")
    /\ UNCHANGED <<handlers, queue, budget>>

\* lines 237-240: the dimensions are probed only for a raster final path
RunSetCompleted(e) ==
    /\ execs[e].kind = "process" /\ execs[e].pc = "set_completed"
    /\ jobs' = SetField(execs[e].job, "progress", "completed")
    /\ execs' = Goto(e, IF IsRaster(execs[e].fin) THEN "probe" ELSE "return")
    /\ UNCHANGED <<handlers, queue, budget, everDone>>

\* lines 241-243: Image.open returns or raises
RunProbe(e) ==
    /\ execs[e].kind = "process" /\ execs[e].pc = "probe"
    /\ \/ /\ jobs' = SetResult(execs[e].job, "final_width", DimValue)
          /\ execs' = Goto(e, "probe_height")
       \/ /\ execs' = Goto(e, "exc_status")
          /\ UNCHANGED jobs
    /\ UNCHANGED <<handlers, queue, budget, everDone>>

\* line 244
RunProbeHeight(e) ==
    /\ execs[e].kind = "process" /\ execs[e].pc = "probe_height"
    /\ jobs' = SetResult(execs[e].job, "final_height", DimValue)
    /\ execs' = Goto(e, "return")
    /\ UNCHANGED <<handlers, queue, budget, everDone>>

\* an except block that swallows the exception without recording it
RunExcSwallow(e) ==
    /\ execs[e].kind = "process" /\ execs[e].pc = "exc_status"
    /\ execs' = Goto(e, "return")
    /\ UNCHANGED <<jobs, handlers, queue, budget, everDone>>

\* line 249
RunExcStatus(e) ==
    /\ execs[e].kind = "process" /\ execs[e].pc = "exc_status"
    /\ jobs' = SetField(execs[e].job, "status", "error")
    /\ execs' = Goto(e, "exc_error")
    /\ UNCHANGED <<handlers, queue, budget, everDone>>

\* line 250
RunExcError(e) ==
    /\ execs[e].kind = "process" /\ execs[e].pc = "exc_error"
    /\ jobs' = SetField(execs[e].job, "error", "msg")
    /\ execs' = Goto(e, "exc_progress")
    /\ UNCHANGED <<handlers, queue, budget, everDone>>

\* line 251
RunExcProgress(e) ==
    /\ execs[e].kind = "process" /\ execs[e].pc = "exc_progress"
    /\ jobs' = SetField(execs[e].job, "progress", "error")
    /\ execs' = Goto(e, "return")
    /\ UNCHANGED <<handlers, queue, budget, everDone>>

\* one step of run_processing in thread e
RunProcessing(e) ==
    \/ RunCopy(e)
    \/ RunUpscaleCall(e)
    \/ RunUpscaleStore(e)
    \/ RunRemoveBgCall(e)
    \/ RunRemoveBgStore(e)
    \/ RunConvertCall(e)
    \/ RunConvertStore(e)
    \/ RunFinal(e)
    \/ RunSetDone(e)
    \/ RunSetCompleted(e)
    \/ RunProbe(e)
    \/ RunProbeHeight(e)
    \/ RunExcStatus(e)
    \/ RunExcError(e)
    \/ RunExcProgress(e)

\* ----------------------------------------------------------- /batch-process
\* batch_process() with the validation folded into the loop that stores the
\* settings: the known jobs are written before the unknown id is found
BatchCheckStoring(h, ids, cfg) ==
    /\ handlers[h].op = "idle"
    /\ budget > 0
    /\ Len(queue) + Len(ids) <= MaxQueue
    /\ budget' = budget - 1
    /\ LET hd == [IdleHandler EXCEPT !.op = "batch", !.ids = ids, !.cfg = cfg, !.i = 1]
           bad == \E k \in 1..Len(ids) : ~Exists(ids[k])
           before(j) == \E k \in 1..Len(ids) :
                           /\ ids[k] = j
                           /\ \A m \in 1..k : Exists(ids[m])
       IN  /\ handlers' =
                [handlers EXCEPT ![h] =
                   IF bad THEN [hd EXCEPT !.pc = "resp", !.code = 404]
                   ELSE [hd EXCEPT !.pc = "bh_settings"]]
           /\ jobs' = [j \in JobIds |->
                         IF bad /\ before(j)
                         THEN [jobs[j] EXCEPT !.upscale = cfg.up, !.remove_bg = cfg.bg,
                                              !.output_format = cfg.fmt]
                         ELSE jobs[j]]
    /\ UNCHANGED <<execs, queue, everDone>>

\* batch_process(), lines 334-350: every job id must exist, else 404
BatchCheck(h, ids, cfg) ==
    /\ handlers[h].op = "idle"
    /\ budget > 0
    /\ Len(queue) + Len(ids) <= MaxQueue
    /\ budget' = budget - 1
    /\ LET hd == [IdleHandler EXCEPT !.op = "batch", !.ids = ids, !.cfg = cfg, !.i = 1]
       IN  handlers' =
             [handlers EXCEPT ![h] =
                IF \E k \in 1..Len(ids) : ~Exists(ids[k])
                THEN [hd EXCEPT !.pc = "resp", !.code = 404]
                ELSE [hd EXCEPT !.pc = "bh_settings"]]
    /\ UNCHANGED <<jobs, execs, queue, everDone>>

\* lines 354-357: the settings are stored in the job (three writes, one step)
BatchSettings(h) ==
    /\ handlers[h].pc = "bh_settings"
    /\ LET j == handlers[h].ids[handlers[h].i]
       IN  jobs' = [jobs EXCEPT ![j] =
                      [@ EXCEPT !.upscale = handlers[h].cfg.up,
                                !.remove_bg = handlers[h].cfg.bg,
                                !.output_format = handlers[h].cfg.fmt]]
    /\ handlers' = [handlers EXCEPT ![h].pc = "bh_submit"]
    /\ UNCHANGED <<execs, queue, budget, everDone>>

\* line 409: executor.submit(run_batch_item, job_id), then the next job id
BatchSubmit(h) ==
    /\ handlers[h].pc = "bh_submit"
    /\ queue' = Append(queue, handlers[h].ids[handlers[h].i])
    /\ handlers' =
         IF handlers[h].i < Len(handlers[h].ids)
         THEN [handlers EXCEPT ![h] = [@ EXCEPT !.i = handlers[h].i + 1, !.pc = "bh_settings"]]
         ELSE Reply(h, 200)
    /\ UNCHANGED <<jobs, execs, budget, everDone>>

\* the settings stored in job j: job["upscale"], job["remove_bg"], job["output_format"]
StoredConfig(j) == Config(jobs[j].upscale, jobs[j].remove_bg, jobs[j].output_format)

\* an executor that starts a thread for every submission instead of keeping
\* max_workers workers
WorkerTakeAnyThread(w) ==
    /\ queue # <<>>
    /\ \E x \in ExecIds :
          /\ execs[x].kind = "idle"
          /\ execs' = [execs EXCEPT ![x] =
                         [IdleExec EXCEPT !.kind = "batch", !.pc = "b_check", !.job = Head(queue),
                                    !.trig = StoredConfig(Head(queue))]]
    /\ queue' = Tail(queue)
    /\ UNCHANGED <<jobs, handlers, budget, everDone>>

\* an executor whose workers take the newest submission
WorkerTakeNewest(w) ==
    /\ w \in WorkerIds
    /\ execs[w].kind = "idle"
    /\ queue # <<>>
    /\ execs' = [execs EXCEPT ![w] =
                   [IdleExec EXCEPT !.kind = "batch", !.pc = "b_check",
                                    !.job = queue[Len(queue)],
                                    !.trig = StoredConfig(queue[Len(queue)])]]
    /\ queue' = SubSeq(queue, 1, Len(queue) - 1)
    /\ UNCHANGED <<jobs, handlers, budget, everDone>>

\* ThreadPoolExecutor(max_workers=2): an idle worker takes the oldest submission
\* (trig keeps, for the execution, the settings stored for its job as it begins)
WorkerTake(w) ==
    /\ w \in WorkerIds
    /\ execs[w].kind = "idle"
    /\ queue # <<>>
    /\ execs' = [execs EXCEPT ![w] =
                   [IdleExec EXCEPT !.kind = "batch", !.pc = "b_check", !.job = Head(queue),
                                    !.trig = StoredConfig(Head(queue))]]
    /\ queue' = Tail(queue)
    /\ UNCHANGED <<jobs, handlers, budget, everDone>>

\* lines 361-363: a job that is not uploaded is skipped
BatchItemCheck(w) ==
    /\ execs[w].kind = "batch" /\ execs[w].pc = "b_check"
    /\ execs' = Goto(w, IF jobs[execs[w].job].status # "uploaded" THEN "return" ELSE "b_status")
    /\ UNCHANGED <<jobs, handlers, queue, budget, everDone>>

\* line 365
BatchItemSetStatus(w) ==
    /\ execs[w].kind = "batch" /\ execs[w].pc = "b_status"
    /\ jobs' = SetField(execs[w].job, "status", "processing")
    /\ execs' = Goto(w, "b_progress")
    /\ UNCHANGED <<handlers, queue, budget, everDone>>

\* line 366
BatchItemSetProgress(w) ==
    /\ execs[w].kind = "batch" /\ execs[w].pc = "b_progress"
    /\ jobs' = SetField(execs[w].job, "progress", "starting")
    /\ execs' = Goto(w, "b_upscale")
    /\ UNCHANGED <<handlers, queue, budget, everDone>>

\* lines 372-379: the source and the stored upscale setting are read now;
\* with upscale > 0 progress is written and upscale returns a path or raises
\* (cfg keeps what this execution read: scale_factor, the remove_bg test, output_fmt)
BatchItemUpscale(w) ==
    /\ execs[w].kind = "batch" /\ execs[w].pc = "b_upscale"
    /\ LET j == execs[w].job
           src == jobs[j].original
       IN  IF jobs[j].upscale > 0
           THEN /\ jobs' = SetField(j, "progress", "step")
                /\ \/ \E out \in UpscaleOuts(src, jobs[j].upscale) :
                         execs' = [execs EXCEPT ![w] =
                                     [@ EXCEPT !.cur = out, !.pc = "b_up_store",
                                               !.cfg = [@ EXCEPT !.up = jobs[j].upscale]]]
                   \/ execs' = Goto(w, "b_exc_status")
           ELSE /\ execs' = [execs EXCEPT ![w] = [@ EXCEPT !.cur = src, !.pc = "b_remove_bg"]]
                /\ UNCHANGED jobs
    /\ UNCHANGED <<handlers, queue, budget, everDone>>

\* line 380
BatchItemUpscaleStore(w) ==
    /\ execs[w].kind = "batch" /\ execs[w].pc = "b_up_store"
    /\ jobs' = SetResult(execs[w].job, "upscaled", execs[w].cur)
    /\ execs' = GotoWrote(w, "upscaled", execs[w].cur, "b_remove_bg")
    /\ UNCHANGED <<handlers, queue, budget, everDone>>

\* lines 383-384: the stored remove_bg setting is read now
BatchItemRemoveBg(w) ==
    /\ execs[w].kind = "batch" /\ execs[w].pc = "b_remove_bg"
    /\ LET j == execs[w].job
       IN  IF jobs[j].remove_bg
           THEN /\ jobs' = SetField(j, "progress", "step")
                /\ \/ execs' = [execs EXCEPT ![w] =
                                  [@ EXCEPT !.cur = RemoveBgOut(execs[w].cur), !.pc = "b_bg_store",
                                            !.cfg = [@ EXCEPT !.bg = TRUE]]]
                   \/ execs' = Goto(w, "b_exc_status")
           ELSE /\ execs' = Goto(w, "b_convert")
                /\ UNCHANGED jobs
    /\ UNCHANGED <<handlers, queue, budget, everDone>>

\* line 385
BatchItemRemoveBgStore(w) ==
    /\ execs[w].kind = "batch" /\ execs[w].pc = "b_bg_store"
    /\ jobs' = SetResult(execs[w].job, "background_removed", execs[w].cur)
    /\ execs' = GotoWrote(w, "background_removed", execs[w].cur, "b_convert")
    /\ UNCHANGED <<handlers, queue, budget, everDone>>

\* lines 388-393: the stored output_format is read now
BatchItemConvert(w) ==
    /\ execs[w].kind = "batch" /\ execs[w].pc = "b_convert"
    /\ LET j == execs[w].job
           fmt == jobs[j].output_format
       IN  IF fmt \in {"svg", "ico"}
           THEN /\ jobs' = SetField(j, "progress", "step")
                /\ \/ execs' = [execs EXCEPT ![w] =
                                  [@ EXCEPT !.cur = IF fmt = "svg" THEN ToSvgOut(execs[w].cur)
                                                                   ELSE ToIcoOut(execs[w].cur),
                                            !.cfg = [@ EXCEPT !.fmt = fmt],
                                            !.pc = "b_convert_store"]]
                   \/ execs' = Goto(w, "b_exc_status")
           ELSE /\ execs' = Goto(w, "b_final")
                /\ UNCHANGED jobs
    /\ UNCHANGED <<handlers, queue, budget, everDone>>

\* lines 391 and 394
BatchItemConvertStore(w) ==
    /\ execs[w].kind = "batch" /\ execs[w].pc = "b_convert_store"
    /\ jobs' = SetResult(execs[w].job, execs[w].cfg.fmt, execs[w].cur)
    /\ execs' = GotoWrote(w, execs[w].cfg.fmt, execs[w].cur, "b_final")
    /\ UNCHANGED <<handlers, queue, budget, everDone>>

\* lines 396-397
BatchItemFinal(w) ==
    /\ execs[w].kind = "batch" /\ execs[w].pc = "b_final"
    /\ jobs' = SetResult(execs[w].job, "final", execs[w].cur)
    /\ execs' = GotoWrote(w, "final", execs[w].cur, "b_done")
    /\ UNCHANGED <<handlers, queue, budget, everDone>>

\* line 398
BatchItemSetDone(w) ==
    /\ execs[w].kind = "batch" /\ execs[w].pc = "b_done"
    /\ jobs' = SetField(execs[w].job, "status", "done")
    /\ everDone' = everDone \cup {execs[w].job}
    /\ execs' = Goto(w, "b_completed")
    /\ UNCHANGED <<handlers, queue, budget>>

\* line 399
BatchItemSetCompleted(w) ==
    /\ execs[w].kind = "batch" /\ execs[w].pc = "b_completed"
    /\ jobs' = SetField(execs[w].job, "progress", "completed")
    /\ execs' = Goto(w, "return")
    /\ UNCHANGED <<handlers, queue, budget, everDone>>

\* the except block marking every job of the batch as failed
BatchItemExcStatusAll(w) ==
    /\ execs[w].kind = "batch" /\ execs[w].pc = "b_exc_status"
    /\ jobs' = [j \in JobIds |->
                  IF jobs[j].batch_id = jobs[execs[w].job].batch_id
                  THEN [jobs[j] EXCEPT !.status = "error"] ELSE jobs[j]]
    /\ execs' = Goto(w, "b_exc_error")
    /\ UNCHANGED <<handlers, queue, budget, everDone>>

\* line 403
BatchItemExcStatus(w) ==
    /\ execs[w].kind = "batch" /\ execs[w].pc = "b_exc_status"
    /\ jobs' = SetField(execs[w].job, "status", "error")
    /\ execs' = Goto(w, "b_exc_error")
    /\ UNCHANGED <<handlers, queue, budget, everDone>>

\* line 404
BatchItemExcError(w) ==
    /\ execs[w].kind = "batch" /\ execs[w].pc = "b_exc_error"
    /\ jobs' = SetField(execs[w].job, "error", "msg")
    /\ execs' = Goto(w, "b_exc_progress")
    /\ UNCHANGED <<handlers, queue, budget, everDone>>

\* lines 405-406: the exception does not leave run_batch_item
BatchItemExcProgress(w) ==
    /\ execs[w].kind = "batch" /\ execs[w].pc = "b_exc_progress"
    /\ jobs' = SetField(execs[w].job, "progress", "error")
    /\ execs' = Goto(w, "return")
    /\ UNCHANGED <<handlers, queue, budget, everDone>>

\* one step of run_batch_item in worker w
RunBatchItem(w) ==
    \/ BatchItemCheck(w)
    \/ BatchItemSetStatus(w)
    \/ BatchItemSetProgress(w)
    \/ BatchItemUpscale(w)
    \/ BatchItemUpscaleStore(w)
    \/ BatchItemRemoveBg(w)
    \/ BatchItemRemoveBgStore(w)
    \/ BatchItemConvert(w)
    \/ BatchItemConvertStore(w)
    \/ BatchItemFinal(w)
    \/ BatchItemSetDone(w)
    \/ BatchItemSetCompleted(w)
    \/ BatchItemExcStatus(w)
    \/ BatchItemExcError(w)
    \/ BatchItemExcProgress(w)

\* ----------------------------------------------------------------- /resize
\* resize_image(), lines 279-292 and 325-328, for a request that gives a width
\* or a height: unknown job -> 404, status processing -> 400, else the
\* run_resize thread is started (it writes the status itself, line 296)
ResizeRequest(h, j) ==
    /\ handlers[h].op = "idle"
    /\ budget > 0
    /\ CanSpawn
    /\ budget' = budget - 1
    /\ LET hd == [IdleHandler EXCEPT !.op = "resize", !.job = j, !.pc = "resp"]
       IN  IF ~Exists(j)
           THEN /\ handlers' = [handlers EXCEPT ![h] = [hd EXCEPT !.code = 404]]
                /\ UNCHANGED execs
           ELSE IF jobs[j].status = "processing"
           THEN /\ handlers' = [handlers EXCEPT ![h] = [hd EXCEPT !.code = 400]]
                /\ UNCHANGED execs
           ELSE /\ handlers' = [handlers EXCEPT ![h] = [hd EXCEPT !.code = 200]]
                /\ execs' = StartThread([IdleExec EXCEPT !.kind = "resize",
                                            !.pc = "rz_status", !.job = j])
    /\ UNCHANGED <<jobs, queue, everDone>>

\* line 296
ResizeSetStatus(e) ==
    /\ execs[e].kind = "resize" /\ execs[e].pc = "rz_status"
    /\ jobs' = SetField(execs[e].job, "status", "processing")
    /\ execs' = Goto(e, "rz_progress")
    /\ UNCHANGED <<handlers, queue, budget, everDone>>

\* line 297
ResizeSetProgress(e) ==
    /\ execs[e].kind = "resize" /\ execs[e].pc = "rz_progress"
    /\ jobs' = SetField(execs[e].job, "progress", "resizing")
    /\ execs' = Goto(e, "rz_call")
    /\ UNCHANGED <<handlers, queue, budget, everDone>>

\* lines 299-311: the source is read, processor.resize and Image.open return or raise
ResizeCall(e) ==
    /\ execs[e].kind = "resize" /\ execs[e].pc = "rz_call"
    /\ \/ execs' = [execs EXCEPT ![e] =
                       [@ EXCEPT !.cur = ResizeOut(jobs[execs[e].job].original),
                                 !.pc = "rz_original"]]
       \/ execs' = Goto(e, "rz_exc_status")
    /\ UNCHANGED <<jobs, handlers, queue, budget, everDone>>

\* line 313
ResizeSetOriginal(e) ==
    /\ execs[e].kind = "resize" /\ execs[e].pc = "rz_original"
    /\ jobs' = SetField(execs[e].job, "original", execs[e].cur)
    /\ execs' = Goto(e, "rz_dims")
    /\ UNCHANGED <<handlers, queue, budget, everDone>>

\* lines 314-315: width and height (two writes, one step)
ResizeSetDims(e) ==
    /\ execs[e].kind = "resize" /\ execs[e].pc = "rz_dims"
    /\ jobs' = SetField(execs[e].job, "dims", execs[e].cur)
    /\ execs' = Goto(e, "rz_uploaded")
    /\ UNCHANGED <<handlers, queue, budget, everDone>>

\* line 316
ResizeSetUploaded(e) ==
    /\ execs[e].kind = "resize" /\ execs[e].pc = "rz_uploaded"
    /\ jobs' = SetField(execs[e].job, "status", "uploaded")
    /\ execs' = Goto(e, "rz_resized")
    /\ UNCHANGED <<handlers, queue, budget, everDone>>

\* line 317
ResizeSetResized(e) ==
    /\ execs[e].kind = "resize" /\ execs[e].pc = "rz_resized"
    /\ jobs' = SetField(execs[e].job, "progress", "resized")
    /\ execs' = Goto(e, "return")
    /\ UNCHANGED <<handlers, queue, budget, everDone>>

\* line 321
ResizeExcStatus(e) ==
    /\ execs[e].kind = "resize" /\ execs[e].pc = "rz_exc_status"
    /\ jobs' = SetField(execs[e].job, "status", "error")
    /\ execs' = Goto(e, "rz_exc_error")
    /\ UNCHANGED <<handlers, queue, budget, everDone>>

\* lines 322-323
ResizeExcError(e) ==
    /\ execs[e].kind = "resize" /\ execs[e].pc = "rz_exc_error"
    /\ jobs' = SetField(execs[e].job, "error", "msg")
    /\ execs' = Goto(e, "return")
    /\ UNCHANGED <<handlers, queue, budget, everDone>>

\* one step of run_resize in thread e
RunResize(e) ==
    \/ ResizeSetStatus(e)
    \/ ResizeSetProgress(e)
    \/ ResizeCall(e)
    \/ ResizeSetOriginal(e)
    \/ ResizeSetDims(e)
    \/ ResizeSetUploaded(e)
    \/ ResizeSetResized(e)
    \/ ResizeExcStatus(e)
    \/ ResizeExcError(e)

\* ---------------------------------------------------------------- queries
\* status(), lines 267-273: the body built from the job's fields
StatusBody(job) ==
    [NoBody EXCEPT !.status = job.status, !.progress = job.progress,
                   !.error = job.error, !.kinds = ResultKeys(job.results)]

\* status(), lines 263-273
StatusRequest(h, j) ==
    /\ handlers[h].op = "idle"
    /\ LET hd == [IdleHandler EXCEPT !.op = "status", !.job = j, !.pc = "resp"]
       IN  handlers' =
             [handlers EXCEPT ![h] =
                IF ~Exists(j) THEN [hd EXCEPT !.code = 404]
                ELSE [hd EXCEPT !.code = 200, !.body = StatusBody(jobs[j])]]
    /\ UNCHANGED <<jobs, execs, queue, budget, everDone>>

\* batch_status(), line 420: the jobs whose batch_id is b
BatchJobs(b) == {j \in JobIds : Exists(j) /\ jobs[j].batch_id = b}

\* the fold with all_done computed by any() instead of all()
BatchBodyAny(members) ==
    [NoBody EXCEPT !.all_done = \E j \in members : jobs[j].status = "done",
                   !.any_error = \E j \in members : jobs[j].status = "error",
                   !.any_processing = \E j \in members : jobs[j].status = "processing"]

\* batch_status(), lines 437-439: the fold of the members' statuses
BatchBody(members) ==
    [NoBody EXCEPT !.all_done = \A j \in members : jobs[j].status = "done",
                   !.any_error = \E j \in members : jobs[j].status = "error",
                   !.any_processing = \E j \in members : jobs[j].status = "processing"]

\* batch_status(), lines 420-448; the request names its batch in the job field
BatchStatusRequest(h, b) ==
    /\ handlers[h].op = "idle"
    /\ LET hd == [IdleHandler EXCEPT !.op = "batch_status", !.job = b, !.pc = "resp"]
       IN  handlers' =
             [handlers EXCEPT ![h] =
                IF BatchJobs(b) = {} THEN [hd EXCEPT !.code = 404]
                ELSE [hd EXCEPT !.code = 200, !.body = BatchBody(BatchJobs(b))]]
    /\ UNCHANGED <<jobs, execs, queue, budget, everDone>>

\* suffix_map.get(result_type, ""), lines 561-568
NameSuffix(kind) ==
    CASE kind = "upscaled" -> "_upscaled"
      [] kind = "no_background" -> "_nobg"
      [] kind = "final" -> "_processed"
      [] OTHER -> ""

\* _make_download_name with the extension taken from the uploaded file's name
MakeDownloadNameOfOriginal(job, kind) ==
    [stem |-> job.original_name.stem,
     suffix |-> NameSuffix(kind),
     ext |-> job.original_name.ext]

\* _make_download_name(), lines 556-581: the stem of original_name, the
\* suffix of the kind, and the extension of the path stored under the kind
\* (without such a path: .svg, .ico, or .png for any other kind)
MakeDownloadName(job, kind) ==
    [stem |-> job.original_name.stem,
     suffix |-> NameSuffix(kind),
     ext |-> IF job.results[kind] # NoPath THEN job.results[kind].ext
             ELSE IF kind = "svg" THEN ".svg"
             ELSE IF kind = "ico" THEN ".ico"
             ELSE ".png"]

\* download(), lines 474-485: unknown job -> 404, else the redirect to the
\* download URL that carries the download name
DownloadRedirect(h, j, kind) ==
    /\ handlers[h].op = "idle"
    /\ LET hd == [IdleHandler EXCEPT !.op = "download_name", !.job = j, !.kind = kind, !.pc = "resp"]
       IN  handlers' =
             [handlers EXCEPT ![h] =
                IF ~Exists(j) THEN [hd EXCEPT !.code = 404]
                ELSE [hd EXCEPT !.code = 302, !.name = MakeDownloadName(jobs[j], kind)]]
    /\ UNCHANGED <<jobs, execs, queue, budget, everDone>>

\* download_with_name(), lines 453-471: unknown job -> 404, status not done
\* -> 400, no path under the requested kind -> 404, else the file at that path
\* is sent (the application deletes no file, so a stored path exists on disk)
DownloadRequest(h, j, kind) ==
    /\ handlers[h].op = "idle"
    /\ LET hd == [IdleHandler EXCEPT !.op = "download", !.job = j, !.kind = kind, !.pc = "resp"]
       IN  handlers' =
             [handlers EXCEPT ![h] =
                IF ~Exists(j) THEN [hd EXCEPT !.code = 404]
                ELSE IF jobs[j].status # "done" THEN [hd EXCEPT !.code = 400]
                ELSE IF jobs[j].results[kind] = NoPath THEN [hd EXCEPT !.code = 404]
                ELSE [hd EXCEPT !.code = 200, !.file = jobs[j].results[kind]]]
    /\ UNCHANGED <<jobs, execs, queue, budget, everDone>>

\* lines 531-540: the archive entry of a member, its final file under the
\* name f"{original_name stem}_processed{final_ext}"
ArchiveEntry(job) ==
    [name |-> [stem |-> job.original_name.stem, suffix |-> "_processed",
               ext |-> job.results["final"].ext],
     file |-> job.results["final"]]

\* download_batch() with the members tested by any() instead of all()
DownloadBatchAny(h, b) ==
    /\ handlers[h].op = "idle"
    /\ LET hd == [IdleHandler EXCEPT !.op = "download_batch", !.job = b, !.pc = "resp"]
           members == BatchJobs(b)
       IN  handlers' =
             [handlers EXCEPT ![h] =
                IF members = {} THEN [hd EXCEPT !.code = 404]
                ELSE IF ~(\E j \in members : jobs[j].status = "done") THEN [hd EXCEPT !.code = 400]
                ELSE [hd EXCEPT !.code = 200,
                                !.entries = { ArchiveEntry(jobs[j]) :
                                                j \in {m \in members : jobs[m].results["final"] # NoPath} }]]
    /\ UNCHANGED <<jobs, execs, queue, budget, everDone>>

\* download_batch(), lines 520-553: no member -> 404, a member not done ->
\* 400, else the archive with an entry for every member that has a final path
DownloadBatchRequest(h, b) ==
    /\ handlers[h].op = "idle"
    /\ LET hd == [IdleHandler EXCEPT !.op = "download_batch", !.job = b, !.pc = "resp"]
           members == BatchJobs(b)
       IN  handlers' =
             [handlers EXCEPT ![h] =
                IF members = {} THEN [hd EXCEPT !.code = 404]
                ELSE IF ~(\A j \in members : jobs[j].status = "done") THEN [hd EXCEPT !.code = 400]
                ELSE [hd EXCEPT !.code = 200,
                                !.entries = { ArchiveEntry(jobs[j]) :
                                                j \in {m \in members : jobs[m].results["final"] # NoPath} }]]
    /\ UNCHANGED <<jobs, execs, queue, budget, everDone>>

\* upload_batch(), lines 121-168: n valid files become n jobs of one new batch;
\* the batch id is known to no client before the response
UploadBatch(n, ext) ==
    /\ n >= 1
    /\ LET m == Cardinality({j \in JobIds : Exists(j)})
           b == 1 + Cardinality({jobs[k].batch_id : k \in JobIds} \ {0})
       IN  /\ m + n <= MaxJobs
           /\ \A k \in 1..m : Exists(k)
           /\ jobs' = [j \in JobIds |->
                         IF j \in (m + 1)..(m + n) THEN NewJob(j, ext, b) ELSE jobs[j]]
    /\ UNCHANGED <<handlers, execs, queue, budget, everDone>>

\* --------------------------------------------------------- specifications
\* the configurations the requests of SpecJob choose from
JobProcessConfigs == {Config(0, FALSE, "png"), Config(2, TRUE, "svg")}
JobBatchConfigs == {Config(4, TRUE, "ico")}

\* One job, every trigger and the status query, with the started threads and
\* the workers interleaved.
NextJob ==
    \/ \E ext \in {".jpg"} : Upload(1, ext)
    \/ \E h \in HandlerIds : Respond(h)
    \/ \E h \in HandlerIds, cfg \in JobProcessConfigs : ProcessCheck(h, 1, cfg)
    \/ \E h \in HandlerIds : ProcessSetStatus(h)
    \/ \E h \in HandlerIds : ProcessStart(h)
    \/ \E e \in ThreadIds : RunProcessing(e)
    \/ \E h \in HandlerIds, cfg \in JobBatchConfigs : BatchCheck(h, <<1>>, cfg)
    \/ \E h \in HandlerIds : BatchSettings(h)
    \/ \E h \in HandlerIds : BatchSubmit(h)
    \/ \E w \in WorkerIds : WorkerTake(w)
    \/ \E w \in WorkerIds : RunBatchItem(w)
    \/ \E h \in HandlerIds : ResizeRequest(h, 1)
    \/ \E e \in ThreadIds : RunResize(e)
    \/ \E h \in HandlerIds : StatusRequest(h, 1)

SpecJob == InitWith(MaxReqJob) /\ [][NextJob]_vars

\* the pipeline steps of run_processing for a request that asks for no step
RunProcessingPlain(e) ==
    \/ RunCopy(e)
    \/ RunFinal(e)
    \/ RunSetDone(e)
    \/ RunSetCompleted(e)
    \/ RunProbe(e)
    \/ RunProbeHeight(e)
    \/ RunExcStatus(e)
    \/ RunExcError(e)
    \/ RunExcProgress(e)

\* the steps of run_batch_item for settings that ask for background removal only
RunBatchItemBg(w) ==
    \/ BatchItemCheck(w)
    \/ BatchItemSetStatus(w)
    \/ BatchItemSetProgress(w)
    \/ BatchItemUpscale(w)
    \/ BatchItemRemoveBg(w)
    \/ BatchItemRemoveBgStore(w)
    \/ BatchItemConvert(w)
    \/ BatchItemFinal(w)
    \/ BatchItemSetDone(w)
    \/ BatchItemSetCompleted(w)
    \/ BatchItemExcStatus(w)
    \/ BatchItemExcError(w)
    \/ BatchItemExcProgress(w)

\* the steps of run_batch_item for settings that ask for no step
RunBatchItemPlain(w) ==
    \/ BatchItemCheck(w)
    \/ BatchItemSetStatus(w)
    \/ BatchItemSetProgress(w)
    \/ BatchItemUpscale(w)
    \/ BatchItemRemoveBg(w)
    \/ BatchItemConvert(w)
    \/ BatchItemFinal(w)
    \/ BatchItemSetDone(w)
    \/ BatchItemSetCompleted(w)

\* A batch of two jobs, triggered with background removal, and the batch status query.
NextBatch ==
    \/ UploadBatch(2, ".jpg")
    \/ \E h \in HandlerIds : Respond(h)
    \/ \E h \in HandlerIds, ids \in {<<1, 2>>, <<2>>} :
          BatchCheck(h, ids, Config(0, TRUE, "png"))
    \/ \E h \in HandlerIds : BatchSettings(h)
    \/ \E h \in HandlerIds : BatchSubmit(h)
    \/ \E w \in WorkerIds : WorkerTake(w)
    \/ \E w \in WorkerIds : RunBatchItemBg(w)
    \/ \E h \in HandlerIds : BatchStatusRequest(h, 1)

SpecBatch == InitWith(MaxReqBatch) /\ [][NextBatch]_vars

\* A batch of two jobs triggered with background removal, which may raise.
NextIsolation ==
    \/ UploadBatch(2, ".jpg")
    \/ \E h \in HandlerIds : Respond(h)
    \/ \E h \in HandlerIds, ids \in {<<1, 2>>, <<2>>} :
          BatchCheck(h, ids, Config(0, TRUE, "png"))
    \/ \E h \in HandlerIds : BatchSettings(h)
    \/ \E h \in HandlerIds : BatchSubmit(h)
    \/ \E w \in WorkerIds : WorkerTake(w)
    \/ \E w \in WorkerIds : RunBatchItemBg(w)

SpecIsolation == InitWith(MaxReqBatch) /\ [][NextIsolation]_vars

\* One job and /process requests that ask for no step.
NextProcess ==
    \/ Upload(1, ".jpg")
    \/ \E h \in HandlerIds : Respond(h)
    \/ \E h \in HandlerIds : ProcessCheck(h, 1, Config(0, FALSE, "png"))
    \/ \E h \in HandlerIds : ProcessSetStatus(h)
    \/ \E h \in HandlerIds : ProcessStart(h)
    \/ \E e \in ThreadIds : RunProcessingPlain(e)

SpecProcess == InitWith(MaxReqProcess) /\ [][NextProcess]_vars

\* Three jobs, triggered by /process (jobs 1, 2) or by /batch-process (jobs 2, 3)
\* with no step.
NextPool ==
    \/ \E j \in 1..3 : Upload(j, ".jpg")
    \/ \E h \in HandlerIds : Respond(h)
    \/ \E h \in HandlerIds, j \in 1..2 : ProcessCheck(h, j, Config(0, FALSE, "png"))
    \/ \E h \in HandlerIds : ProcessSetStatus(h)
    \/ \E h \in HandlerIds : ProcessStart(h)
    \/ \E e \in ThreadIds : RunProcessingPlain(e)
    \/ \E h \in HandlerIds, j \in 2..3 : BatchCheck(h, <<j>>, Config(0, FALSE, "png"))
    \/ \E h \in HandlerIds : BatchSettings(h)
    \/ \E h \in HandlerIds : BatchSubmit(h)
    \/ \E w \in WorkerIds : WorkerTake(w)
    \/ \E w \in WorkerIds : RunBatchItemPlain(w)

SpecPool == InitWith(MaxReqPool) /\ [][NextPool]_vars

\* A batch of three jobs triggered through /batch-process only, by a request
\* for two of them and a request for the third, with no step: more
\* submissions than the executor has workers.
NextLimiter ==
    \/ UploadBatch(3, ".jpg")
    \/ \E h \in HandlerIds : Respond(h)
    \/ \E h \in HandlerIds, ids \in {<<1, 2>>, <<3>>} :
          BatchCheck(h, ids, Config(0, FALSE, "png"))
    \/ \E h \in HandlerIds : BatchSettings(h)
    \/ \E h \in HandlerIds : BatchSubmit(h)
    \/ \E w \in WorkerIds : WorkerTake(w)
    \/ \E w \in WorkerIds : RunBatchItemPlain(w)

SpecLimiter == InitWith(MaxReqLimiter) /\ [][NextLimiter]_vars

\* Three jobs of a batch triggered by /batch-process (two requests: jobs 1
\* and 2, job 3) and job 1 also by /process, with no step; the copy and the
\* probe of run_processing may raise.
NextLive ==
    \/ UploadBatch(3, ".jpg")
    \/ \E h \in HandlerIds : Respond(h)
    \/ \E h \in HandlerIds, ids \in {<<1, 2>>, <<3>>} :
          BatchCheck(h, ids, Config(0, FALSE, "png"))
    \/ \E h \in HandlerIds : BatchSettings(h)
    \/ \E h \in HandlerIds : BatchSubmit(h)
    \/ \E w \in WorkerIds : WorkerTake(w)
    \/ \E w \in WorkerIds : RunBatchItemPlain(w)
    \/ \E h \in HandlerIds : ProcessCheck(h, 1, Config(0, FALSE, "png"))
    \/ \E h \in HandlerIds : ProcessSetStatus(h)
    \/ \E h \in HandlerIds : ProcessStart(h)
    \/ \E e \in ThreadIds : RunProcessingPlain(e)

\* the scheduling the liveness rests on: a request thread, a started thread
\* and an executor worker that can take a step eventually take it, and a
\* provider call, being part of such a step, eventually returns or raises
FairLive ==
    /\ \A h \in HandlerIds :
          WF_vars(Respond(h) \/ ProcessSetStatus(h) \/ ProcessStart(h)
                     \/ BatchSettings(h) \/ BatchSubmit(h))
    /\ \A w \in WorkerIds : WF_vars(WorkerTake(w) \/ RunBatchItemPlain(w))
    /\ \A e \in ThreadIds : WF_vars(RunProcessingPlain(e))

SpecLive == InitWith(MaxReqLive) /\ [][NextLive]_vars /\ FairLive

\* the steps of run_processing for requests that ask for no step or for svg only
RunProcessingSvg(e) ==
    \/ RunCopy(e)
    \/ RunConvertCall(e)
    \/ RunConvertStore(e)
    \/ RunFinal(e)
    \/ RunSetDone(e)
    \/ RunSetCompleted(e)
    \/ RunProbe(e)
    \/ RunProbeHeight(e)
    \/ RunExcStatus(e)
    \/ RunExcError(e)
    \/ RunExcProgress(e)

\* One job, /process requests that ask for png or for svg, and downloads of
\* the kinds final and svg.
NextDownload ==
    \/ Upload(1, ".jpg")
    \/ \E h \in HandlerIds : Respond(h)
    \/ \E h \in HandlerIds, fmt \in {"png", "svg"} : ProcessCheck(h, 1, Config(0, FALSE, fmt))
    \/ \E h \in HandlerIds : ProcessSetStatus(h)
    \/ \E h \in HandlerIds : ProcessStart(h)
    \/ \E e \in ThreadIds : RunProcessingSvg(e)
    \/ \E h \in HandlerIds, kind \in {"final", "svg"} : DownloadRequest(h, 1, kind)

SpecDownload == InitWith(MaxReqDownload) /\ [][NextDownload]_vars

\* A batch of two jobs triggered with no step, and the archive download of
\* that batch and of a batch that does not exist.
NextArchive ==
    \/ UploadBatch(2, ".jpg")
    \/ \E h \in HandlerIds : Respond(h)
    \/ \E h \in HandlerIds, ids \in {<<1, 2>>, <<2>>} :
          BatchCheck(h, ids, Config(0, FALSE, "png"))
    \/ \E h \in HandlerIds : BatchSettings(h)
    \/ \E h \in HandlerIds : BatchSubmit(h)
    \/ \E w \in WorkerIds : WorkerTake(w)
    \/ \E w \in WorkerIds : RunBatchItemPlain(w)
    \/ \E h \in HandlerIds, b \in 1..2 : DownloadBatchRequest(h, b)

SpecArchive == InitWith(MaxReqArchive) /\ [][NextArchive]_vars

\* the result kinds a client asks a download name for
NameKinds == {"upscaled", "no_background", "svg", "ico", "final"}

\* One job uploaded as cat.jpg, a /process request with background removal
\* only or with every step, and the download redirect for every kind.
NextName ==
    \/ Upload(1, ".jpg")
    \/ \E h \in HandlerIds : Respond(h)
    \/ \E h \in HandlerIds, cfg \in {Config(0, TRUE, "png"), Config(2, TRUE, "svg")} :
          ProcessCheck(h, 1, cfg)
    \/ \E h \in HandlerIds : ProcessSetStatus(h)
    \/ \E h \in HandlerIds : ProcessStart(h)
    \/ \E e \in ThreadIds : RunProcessing(e)
    \/ \E h \in HandlerIds, kind \in NameKinds : DownloadRedirect(h, 1, kind)

SpecName == InitWith(MaxReqName) /\ [][NextName]_vars

\* One job and /batch-process requests for it that differ in remove_bg.
NextConfig ==
    \/ Upload(1, ".jpg")
    \/ \E h \in HandlerIds : Respond(h)
    \/ \E h \in HandlerIds, bg \in BOOLEAN : BatchCheck(h, <<1>>, Config(0, bg, "png"))
    \/ \E h \in HandlerIds : BatchSettings(h)
    \/ \E h \in HandlerIds : BatchSubmit(h)
    \/ \E w \in WorkerIds : WorkerTake(w)
    \/ \E w \in WorkerIds : RunBatchItemBg(w)

SpecConfig == InitWith(MaxReqConfig) /\ [][NextConfig]_vars

\* One job triggered by /process and by /batch-process, with no step.
NextFinal ==
    \/ Upload(1, ".jpg")
    \/ \E h \in HandlerIds : Respond(h)
    \/ \E h \in HandlerIds : ProcessCheck(h, 1, Config(0, FALSE, "png"))
    \/ \E h \in HandlerIds : ProcessSetStatus(h)
    \/ \E h \in HandlerIds : ProcessStart(h)
    \/ \E e \in ThreadIds : RunProcessingPlain(e)
    \/ \E h \in HandlerIds : BatchCheck(h, <<1>>, Config(0, FALSE, "png"))
    \/ \E h \in HandlerIds : BatchSettings(h)
    \/ \E h \in HandlerIds : BatchSubmit(h)
    \/ \E w \in WorkerIds : WorkerTake(w)
    \/ \E w \in WorkerIds : RunBatchItemPlain(w)

SpecFinal == InitWith(MaxReqFinal) /\ [][NextFinal]_vars

\* One job, /resize requests and /process requests with no step.
NextResize ==
    \/ Upload(1, ".jpg")
    \/ \E h \in HandlerIds : Respond(h)
    \/ \E h \in HandlerIds : ResizeRequest(h, 1)
    \/ \E e \in ThreadIds : RunResize(e)
    \/ \E h \in HandlerIds : ProcessCheck(h, 1, Config(0, FALSE, "png"))
    \/ \E h \in HandlerIds : ProcessSetStatus(h)
    \/ \E h \in HandlerIds : ProcessStart(h)
    \/ \E e \in ThreadIds : RunProcessingPlain(e)

SpecResize == InitWith(MaxReqResize) /\ [][NextResize]_vars

\* Jobs 1 and 2 may or may not have been uploaded when a request names them;
\* job 3 never is. /batch-process names jobs 1 and 2, /process names job 3.
NextReject ==
    \/ \E j \in {1, 2} : Upload(j, ".jpg")
    \/ \E h \in HandlerIds : Respond(h)
    \/ \E h \in HandlerIds : BatchCheck(h, <<1, 2>>, Config(0, FALSE, "png"))
    \/ \E h \in HandlerIds : BatchSettings(h)
    \/ \E h \in HandlerIds : BatchSubmit(h)
    \/ \E w \in WorkerIds : WorkerTake(w)
    \/ \E w \in WorkerIds : RunBatchItemPlain(w)
    \/ \E h \in HandlerIds : ProcessCheck(h, 3, Config(0, FALSE, "png"))
    \/ \E h \in HandlerIds, j \in {2, 3} : StatusRequest(h, j)

SpecReject == InitWith(MaxReqReject) /\ [][NextReject]_vars

\* ------------------------------------------------------------------ claims
\* an execution of the pipeline of job j that has started and has not yet
\* written done or error
Active(e, j) ==
    /\ execs[e].job = j
    /\ \/ /\ execs[e].kind = "process"
          /\ execs[e].pc \notin {"set_completed", "probe", "probe_height", "exc_error", "exc_progress"}
       \/ /\ execs[e].kind = "batch"
          /\ execs[e].pc \notin {"b_check", "b_completed", "b_exc_error", "b_exc_progress"}

\* nothing is working on job j: no execution, no queued item, no request
Quiet(j) ==
    /\ \A e \in ExecIds : execs[e].job # j
    /\ \A k \in 1..Len(queue) : queue[k] # j
    /\ \A h \in HandlerIds :
          handlers[h].op \in {"process", "batch", "resize"} =>
             /\ handlers[h].job # j
             /\ \A k \in 1..Len(handlers[h].ids) : handlers[h].ids[k] # j

\* the result kinds a configuration asks for
ExpectedKinds(cfg) ==
    {"final"}
    \cup (IF cfg.up # 0 THEN {"upscaled"} ELSE {})
    \cup (IF cfg.bg THEN {"no_background"} ELSE {})
    \cup (IF cfg.fmt \in {"svg", "ico"} THEN {cfg.fmt} ELSE {})

\* execution e returns in this step
Returns(e) == execs[e].kind # "idle" /\ execs'[e].kind = "idle"

\* C1: at most one pipeline execution of a job is between its start and its
\* done or error at any time.
C1_OneExecutionPerJob ==
    \A j \in JobIds : Cardinality({e \in ExecIds : Active(e, j)}) <= 1

\* C3: once the status of a job is done or error it changes only by a newly
\* accepted trigger, which sets it to processing.
C3_TerminalStatus ==
    [][\A j \in JobIds :
          (jobs[j].status \in {"done", "error"} /\ jobs'[j].status # jobs[j].status)
             => jobs'[j].status = "processing"]_vars

\* C5: a job's error is set iff its status is error; here for a job that
\* nothing is working on and that is done: it has no error.
C5_ErrorIffStatusError ==
    \A j \in JobIds :
       (Exists(j) /\ Quiet(j) /\ jobs[j].status = "done") => jobs[j].error = "none"

\* the result kinds of a job: the keys of results but the stored dimensions
ArtifactKinds(r) == ResultKeys(r) \ {"final_width", "final_height"}

\* execution e is all that works on its job: no other execution, no request
OnlyOn(e) ==
    /\ \A x \in ExecIds : x # e => execs[x].job # execs[e].job
    /\ \A k \in 1..Len(queue) : queue[k] # execs[e].job
    /\ \A h \in HandlerIds :
          handlers[h].op \in {"process", "batch", "resize"} =>
             /\ handlers[h].job # execs[e].job
             /\ \A k \in 1..Len(handlers[h].ids) : handlers[h].ids[k] # execs[e].job

\* C6: when an execution that alone works on its job returns after its done
\* path, the result kinds of the job are exactly the kinds its configuration
\* asks for, on the /process and on the /batch-process path.
C6_ExactResultKinds ==
    [][\A e \in ExecIds :
          (/\ Returns(e)
           /\ execs[e].pc \in {"set_completed", "probe_height", "b_completed"}
           /\ OnlyOn(e))
             => ArtifactKinds(jobs'[execs[e].job].results) = ExpectedKinds(execs[e].cfg)]_vars

\* C7: when an execution returns after its except block, the job's status is
\* error, its error is set and its progress is the failure message.
C7_FailureEndsInError ==
    [][\A e \in ExecIds :
          (Returns(e) /\ execs[e].pc \in {"exc_progress", "b_exc_progress"})
             => /\ jobs'[execs[e].job].status = "error"
                /\ jobs'[execs[e].job].error # "none"
                /\ jobs'[execs[e].job].progress = "error"]_vars

\* C2: the jobs with a pipeline execution under way, started by /process or
\* by /batch-process, are never more than the pool size.
C2_SharedPoolBound ==
    Cardinality({j \in JobIds : \E e \in ExecIds : Active(e, j)}) <= PoolSize

\* C4: a /process request for a job whose status is processing is answered
\* 409 at once, and neither that step nor the sending of the answer changes
\* a job, an execution or the queue.
C4_RejectedProcessChangesNothing ==
    [][\A h \in HandlerIds :
          /\ (/\ handlers[h].op = "idle"
              /\ handlers'[h].op = "process"
              /\ jobs[handlers'[h].job].status = "processing")
                => /\ handlers'[h].pc = "resp" /\ handlers'[h].code = 409
                   /\ jobs' = jobs /\ execs' = execs /\ queue' = queue
          /\ (handlers[h].pc = "resp" /\ handlers[h].code = 409 /\ handlers'[h] # handlers[h])
                => jobs' = jobs /\ execs' = execs /\ queue' = queue]_vars

C4_Witness ==
    \E h \in HandlerIds :
       /\ handlers[h].op = "process" /\ handlers[h].code = 409
       /\ jobs[handlers[h].job].status = "processing"

ExcPcs == {"exc_status", "exc_error", "exc_progress",
           "b_exc_status", "b_exc_error", "b_exc_progress"}

\* C8: a step in which an execution raises or handles its exception changes
\* no other job, no other execution and not the queue, and after the except
\* block the worker is idle again, free to take the next submission.
C8_FailureIsolated ==
    [][\A w \in ExecIds :
          (/\ execs'[w] # execs[w]
           /\ execs[w].kind \in {"process", "batch"}
           /\ (execs[w].pc \in ExcPcs \/ execs'[w].pc \in ExcPcs))
             => /\ \A j \in JobIds : j # execs[w].job => jobs'[j] = jobs[j]
                /\ \A e \in ExecIds : e # w => execs'[e] = execs[e]
                /\ queue' = queue
                /\ execs[w].pc \in {"exc_progress", "b_exc_progress"} => execs'[w] = IdleExec]_vars

\* a job of a batch failed and its sibling is done
C8_Witness ==
    /\ jobs[1].status = "error" /\ jobs[1].error = "msg"
    /\ jobs[2].status = "done"
    /\ jobs[1].batch_id = jobs[2].batch_id /\ jobs[1].batch_id # 0
    /\ \A w \in WorkerIds : execs[w].kind = "idle"

\* C9: a status response is a coherent snapshot: an error status comes with
\* an error message, a done status with the completion message.
C9_CoherentSnapshot ==
    \A h \in HandlerIds :
       (handlers[h].op = "status" /\ handlers[h].code = 200) =>
          /\ handlers[h].body.status = "error" => handlers[h].body.error # "none"
          /\ handlers[h].body.status = "done" => handlers[h].body.progress = "completed"

C11_BatchExecutionsBounded ==
    Cardinality({e \in ExecIds : execs[e].kind = "batch"}) <= PoolSize

\* both workers run an item and a third submission waits in the queue
C11_Witness ==
    /\ \A w \in WorkerIds : execs[w].kind = "batch" /\ execs[w].pc = "b_final"
    /\ queue = <<3>>

\* C13: a worker begins a submission only when it is idle, so with the
\* executions under way below max_workers, and the submission it begins is the
\* oldest one waiting: no submission begins before one submitted earlier.
C13_FifoAdmission ==
    [][\A w \in ExecIds :
          (execs[w].kind = "idle" /\ execs'[w].kind = "batch")
             => /\ queue # <<>>
                /\ execs'[w].job = Head(queue)
                /\ queue' = Tail(queue)
                /\ Cardinality({e \in ExecIds : execs[e].kind = "batch"}) < PoolSize]_vars

\* the third submission has just begun in the worker that finished job 1,
\* while the other worker still runs job 2
C13_Witness ==
    \E w, v \in WorkerIds :
       /\ execs[w].kind = "batch" /\ execs[w].job = 3 /\ execs[w].pc = "b_check"
       /\ execs[v].kind = "batch" /\ execs[v].job = 2 /\ execs[v].pc = "b_final"
       /\ jobs[1].status = "done" /\ jobs[1].progress = "completed"
       /\ queue = <<>>

\* C12: under fair scheduling, a submission waiting in the executor's queue
\* eventually begins, a /process request that was accepted eventually has its
\* thread started, and a job whose status is processing eventually is done or
\* error.
C12_EventuallyDoneOrError ==
    /\ \A j \in JobIds :
          (\E k \in 1..Len(queue) : queue[k] = j)
             ~> (\E w \in WorkerIds : execs[w].kind = "batch" /\ execs[w].job = j)
    /\ \A j \in JobIds :
          (\E h \in HandlerIds : handlers[h].pc = "p_status" /\ handlers[h].job = j)
             ~> (jobs[j].status \in {"done", "error"})
    /\ \A j \in JobIds :
          (jobs[j].status = "processing") ~> (jobs[j].status \in {"done", "error"})

\* every worker is idle again and the three submissions, one more than the
\* executor has workers, have all run to done
C12_Witness ==
    /\ \A e \in ExecIds : execs[e].kind = "idle"
    /\ queue = <<>> /\ budget = 0
    /\ \A j \in 1..3 : jobs[j].status = "done" /\ jobs[j].progress = "completed"

\* C14: a step of a /batch-process request, or of the item it submitted, on
\* a named job whose status is processing, done or error leaves that job's
\* status, progress, error, results and stored settings as they were.
C14_BatchTriggerNoOp ==
    [][\A j \in JobIds :
          (/\ jobs[j].status \in {"processing", "done", "error"}
           /\ \/ \E h \in HandlerIds :
                    /\ handlers[h].op = "batch" /\ handlers[h].pc \in {"bh_settings", "bh_submit"}
                    /\ handlers[h].ids[handlers[h].i] = j
                    /\ handlers'[h] # handlers[h]
              \/ \E w \in WorkerIds :
                    /\ execs[w].kind = "batch" /\ execs[w].pc = "b_check"
                    /\ execs[w].job = j
                    /\ execs'[w] # execs[w])
             => jobs'[j] = jobs[j]]_vars

\* the result kinds the run that produced path p has produced: every step
\* leaves its mark in the path it returns (_make_output_path)
KindsOfPath(p) ==
    {"final"}
    \cup (IF \E k \in 1..Len(p.sfx) : p.sfx[k] \in {"_x2", "_x4"} THEN {"upscaled"} ELSE {})
    \cup (IF \E k \in 1..Len(p.sfx) : p.sfx[k] = "_nobg" THEN {"no_background"} ELSE {})
    \cup (IF p.ext = ".svg" THEN {"svg"} ELSE {})
    \cup (IF p.ext = ".ico" THEN {"ico"} ELSE {})

\* C15: a download answers 404 for an unknown job, 400 for a job that is not
\* done, 404 for a kind with no entry in results; it sends a file only for a
\* done job, the file is the path stored under the requested kind, and the
\* kind is one that the job's latest run, the one that wrote final, produced.
C15_DownloadResolution ==
    [][\A h \in HandlerIds :
          (handlers[h].op = "idle" /\ handlers'[h].op = "download")
             => LET j == handlers'[h].job
                    kind == handlers'[h].kind
                    code == handlers'[h].code
                IN  /\ ~Exists(j) => code = 404
                    /\ (Exists(j) /\ jobs[j].status # "done") => code = 400
                    /\ (Exists(j) /\ jobs[j].status = "done" /\ kind \notin ResultKeys(jobs[j].results))
                          => code = 404
                    /\ code = 200 =>
                          /\ jobs[j].status = "done"
                          /\ handlers'[h].file = jobs[j].results[kind]
                          /\ handlers'[h].file # NoPath
                          /\ kind \in KindsOfPath(jobs[j].results["final"])]_vars

C17_PartialResultsSurvive ==
    [][\A e \in ExecIds :
          (/\ execs[e].pc \in {"exc_status", "b_exc_status"}
           /\ execs'[e].pc # execs[e].pc)
             => \A x \in execs[e].wrote :
                   jobs'[execs[e].job].results[x[1]] = x[2]]_vars

\* C18: the download name of a job for a kind with a stored artifact is the
\* stem of the uploaded file's name, then _upscaled, _nobg, _processed or
\* nothing (svg, ico) by kind, then the extension of the stored artifact; for
\* cat.jpg with a PNG final it is cat_processed.png.
C18_DownloadName ==
    [][\A h \in HandlerIds :
          (/\ handlers[h].op = "idle" /\ handlers'[h].op = "download_name"
           /\ handlers'[h].code = 302
           /\ jobs[handlers'[h].job].results[handlers'[h].kind] # NoPath)
             => LET job == jobs[handlers'[h].job]
                    kind == handlers'[h].kind
                    name == handlers'[h].name
                IN  /\ name.stem = job.original_name.stem
                    /\ kind = "upscaled" => name.suffix = "_upscaled"
                    /\ kind = "no_background" => name.suffix = "_nobg"
                    /\ kind = "final" => name.suffix = "_processed"
                    /\ kind \in {"svg", "ico"} => name.suffix = ""
                    /\ name.ext = job.results[kind].ext
                    /\ (/\ job.original_name = [stem |-> "cat", ext |-> ".jpg"]
                        /\ kind = "final" /\ job.results["final"].ext = ".png")
                          => name = [stem |-> "cat", suffix |-> "_processed", ext |-> ".png"]]_vars

\* cat.jpg was processed to a PNG and the name for its final was asked
C18_Witness ==
    \E h \in HandlerIds :
       /\ handlers[h].op = "download_name" /\ handlers[h].kind = "final"
       /\ handlers[h].name = [stem |-> "cat", suffix |-> "_processed", ext |-> ".png"]
       /\ jobs[handlers[h].job].original_name = [stem |-> "cat", ext |-> ".jpg"]
       /\ jobs[handlers[h].job].status = "done"
       /\ jobs[handlers[h].job].results["final"].ext = ".png"

\* C19: the steps a batch execution performs are those of the settings its
\* job had when the execution began: the upscale factor, the remove_bg flag
\* and the output format it reads while it runs are those settings, whatever
\* /batch-process requests arrive for the job in the meantime.
C19_ConfigFixedAtTrigger ==
    [][\A w \in WorkerIds :
          (execs[w].kind = "batch" /\ execs'[w] # execs[w])
             => LET j == execs[w].job
                IN  /\ execs[w].pc = "b_upscale" => jobs[j].upscale = execs[w].trig.up
                    /\ execs[w].pc = "b_remove_bg" => jobs[j].remove_bg = execs[w].trig.bg
                    /\ execs[w].pc = "b_convert" => jobs[j].output_format = execs[w].trig.fmt]_vars

\* the configuration execution e was triggered with: the options of the
\* /process request, or the settings of the job as the batch item began
Requested(e) == IF execs[e].kind = "process" THEN execs[e].cfg ELSE execs[e].trig

\* the path execution e starts from: the work copy of the source in
\* run_processing, the source in run_batch_item
SourceOf(e) ==
    IF execs[e].kind = "process"
    THEN WorkPath(execs[e].job, jobs[execs[e].job].original)
    ELSE jobs[execs[e].job].original

\* the kinds execution e has stored an entry for
WroteKinds(e) == {x[1] : x \in execs[e].wrote}

\* the path execution e has stored under one of the kinds ks
WroteAt(e, ks) == (CHOOSE x \in execs[e].wrote : x[1] \in ks)[2]

\* the output of the last step execution e has completed before a conversion
PrevOut(e) ==
    IF WroteKinds(e) \cap {"no_background", "background_removed"} # {}
    THEN WroteAt(e, {"no_background", "background_removed"})
    ELSE IF "upscaled" \in WroteKinds(e) THEN WroteAt(e, {"upscaled"})
    ELSE SourceOf(e)

\* the output of the last step execution e has completed
LastOut(e) ==
    IF WroteKinds(e) \cap {"svg", "ico"} # {} THEN WroteAt(e, {"svg", "ico"})
    ELSE PrevOut(e)

\* C20: in an execution, upscale is called only if requested and before any
\* other step, on the source; background removal only if requested, once,
\* before the conversion, on the output of the upscale or on the source; the
\* conversion only if requested, once, on the output of the step before it;
\* and final is the output of the last step that ran.
C20_StepOrderAndChaining ==
    [][\A e \in ExecIds :
          LET j == execs[e].job
              w == WroteKinds(e)
          IN  /\ (execs'[e].pc \in {"up_store", "b_up_store"} /\ execs[e].pc # execs'[e].pc)
                    => /\ Requested(e).up \in {2, 4}
                       /\ w = {}
                       /\ execs'[e].cur \in UpscaleOuts(SourceOf(e), Requested(e).up)
              /\ (execs'[e].pc \in {"bg_store", "b_bg_store"} /\ execs[e].pc # execs'[e].pc)
                    => /\ Requested(e).bg
                       /\ w \subseteq {"upscaled"}
                       /\ execs'[e].cur = RemoveBgOut(PrevOut(e))
              /\ (execs'[e].pc \in {"convert_store", "b_convert_store"} /\ execs[e].pc # execs'[e].pc)
                    => /\ Requested(e).fmt \in {"svg", "ico"}
                       /\ w \subseteq {"upscaled", "no_background", "background_removed"}
                       /\ LET out == IF execs[e].kind = "process" THEN execs'[e].fin ELSE execs'[e].cur
                          IN  out = IF Requested(e).fmt = "svg" THEN ToSvgOut(PrevOut(e))
                                                               ELSE ToIcoOut(PrevOut(e))
              /\ (execs[e].pc \in {"final", "b_final"} /\ execs[e].pc # execs'[e].pc)
                    => jobs'[j].results["final"] = LastOut(e)]_vars

\* C21: a job whose status is done has a final entry in its results.
C21_DoneHasFinal ==
    \A j \in JobIds : jobs[j].status = "done" => jobs[j].results["final"] # NoPath

\* an execution has just set its job to done, before anything else of it
C21_Witness ==
    \E e \in ExecIds :
       /\ execs[e].pc \in {"set_completed", "b_completed"}
       /\ jobs[execs[e].job].status = "done"
       /\ jobs[execs[e].job].progress # "completed"
       /\ jobs[execs[e].job].results["final"] # NoPath

\* C22: the source of a job and its stored dimensions change only in a step
\* of a resize whose call has returned, which stores the resized file; no
\* step of a pipeline execution and no step of a resize that raised changes
\* them.
C22_SourceChangedOnlyByResize ==
    [][\A j \in JobIds :
          (/\ Exists(j)
           /\ (jobs'[j].original # jobs[j].original \/ jobs'[j].dims # jobs[j].dims))
             => \E e \in ExecIds :
                   /\ execs[e].kind = "resize" /\ execs[e].job = j
                   /\ execs[e].pc \in {"rz_original", "rz_dims"}
                   /\ execs'[e].pc # execs[e].pc
                   /\ jobs'[j].original \in {jobs[j].original, execs[e].cur}
                   /\ jobs'[j].dims \in {jobs[j].dims, execs[e].cur}]_vars

\* the job was resized and then processed to done: its source is the resized
\* file, its final the work copy
C22_Witness ==
    /\ jobs[1].status = "done"
    /\ jobs[1].original.sfx = <<"_resized">> /\ jobs[1].dims = jobs[1].original
    /\ jobs[1].results["final"].sfx = <<"_work">>
    /\ \A e \in ExecIds : execs[e].kind = "idle"

\* a resize of job j that has been accepted and has not yet set the status
\* back to uploaded or to error
Resizing(e, j) ==
    /\ execs[e].kind = "resize" /\ execs[e].job = j
    /\ execs[e].pc \in {"rz_status", "rz_progress", "rz_call", "rz_original",
                         "rz_dims", "rz_uploaded", "rz_exc_status"}

\* C23: while a resize of a job is under way, no pipeline execution and no
\* other resize of the same job is under way.
C23_ResizeExclusive ==
    \A j \in JobIds : \A e \in ExecIds :
       Resizing(e, j) =>
          \A f \in ExecIds \ {e} : ~Resizing(f, j) /\ ~Active(f, j)

\* the request held by handler record hd names a job id that is not in jobs
NamesUnknown(hd) ==
    \/ hd.op = "batch" /\ \E k \in 1..Len(hd.ids) : ~Exists(hd.ids[k])
    \/ hd.op \in {"process", "status"} /\ ~Exists(hd.job)

\* the request held by handler record hd has been answered not found
Rejected(hd) ==
    hd.op \in {"batch", "process", "status"} /\ hd.pc = "resp" /\ hd.code = 404

\* C24: a /batch-process, /process or status request that names an unknown
\* job id is answered 404 by its first step, and neither that step nor the
\* sending of the answer changes any job, the queue of the worker pool or any
\* execution; a request that goes on to write has named known jobs only.
C24_UnknownIdChangesNothing ==
    [][\A h \in HandlerIds :
          handlers'[h] # handlers[h] =>
             /\ (handlers[h].op = "idle" /\ NamesUnknown(handlers'[h]))
                   => /\ Rejected(handlers'[h])
                      /\ UNCHANGED <<jobs, queue, execs>>
             /\ Rejected(handlers[h])
                   => /\ handlers'[h] = IdleHandler
                      /\ UNCHANGED <<jobs, queue, execs>>
             /\ handlers'[h].pc \in {"bh_settings", "bh_submit"}
                   => ~NamesUnknown(handlers'[h])]_vars

\* a batch request naming the uploaded job 1 and the unknown job 2 has been
\* answered 404; job 1 is as uploaded and nothing is queued or running
C24_Witness ==
    \E h \in HandlerIds :
       /\ Rejected(handlers[h]) /\ handlers[h].op = "batch"
       /\ handlers[h].ids = <<1, 2>>
       /\ Exists(1) /\ ~Exists(2)
       /\ jobs[1] = NewJob(1, ".jpg", 0)
       /\ queue = <<>>
       /\ \A e \in ExecIds : execs[e].kind = "idle"

====
